---- MODULE Spec2Model ----
(***************************************************************************)
(* Model of the PNG writer of gpng_src.cpp / gpng.h (class gpng::Image,    *)
(* the CRC-32 and Adler-32 generators, push_to_buffer, sum_to_31).         *)
(*                                                                         *)
(* Conventions.                                                            *)
(*  - A byte is a number in 0..255, a byte buffer (std::vector<uint8_t>)   *)
(*    is a sequence of bytes; C index i is sequence index i + 1.           *)
(*  - TLC's integers are 32-bit signed, so an unsigned 32-bit word is the  *)
(*    pair <<high 16 bits, low 16 bits>>.                                  *)
(*  - The host is little-endian (the code's own assumption, see the        *)
(*    comment at push_to_buffer): the memory image of an integer is its    *)
(*    bytes, least significant first.                                      *)
(*  - A loop over a buffer is folded over the index range lo..hi-1 in      *)
(*    index order; the fold splits the range in halves so that the depth   *)
(*    of the evaluation stays logarithmic, and forces the left half before *)
(*    it starts the right one.                                             *)
(***************************************************************************)
EXTENDS Integers, Sequences, FiniteSets, TLC

VARIABLES
    width,              \* Image::width
    height,             \* Image::height
    image,              \* Image::image, the pixel storage: image[i] is element i + 1
    closed,             \* Image::close() has run: image is dangling
    main_buffer,        \* Image::main_buffer
    crc_table,          \* static crc_table[256], entry n at index n + 1
    crc_table_computed, \* static crc_table_computed
    file,               \* the bytes of the file output_png opened ("absent" before)
    run,                \* the locals of the call that led to this state, if a call did
    calls,              \* number of output_png calls made
    stores,             \* number of operator() stores made
    stored,             \* what operator() last stored: by the fill loops, and per pixel byte
    pc,                 \* "live", or "crashed" once an out-of-range read has faulted
    zhdr,               \* the zlib header locals CMF, FLG of output_png
    stream              \* a Bitstream: byte, bit_no and the buffer it refers to

vars == <<width, height, image, closed, main_buffer, crc_table, crc_table_computed,
          file, run, calls, stores, stored, pc, zhdr, stream>>

---------------------------------------------------------------------------
(* Bounds of the model *)

MaxWidth == 2
MaxHeight == 2
MaxCalls == 2
MaxStores == 2

\* values an uninitialised pixel byte (new uint8_t[n]) may hold
UninitBytes == {0, 205}
\* values an operator() store writes
StoreBytes == {17, 255}
\* what a read past the end of uncompressed_buffer yields: a fault, or some byte
JunkReads == {[fault |-> TRUE, byte |-> 0], [fault |-> FALSE, byte |-> 170]}

\* the <<column, row, colour>> the stores go to: the first byte of the first pixel,
\* the green byte of the last pixel of the first row, the last byte of the last pixel
StoreCells(w, h) ==
    IF w = 0 \/ h = 0 THEN {}
    ELSE {<<0, 0, 0>>, <<w - 1, 0, 1>>, <<w - 1, h - 1, 2>>}

\* adler32 inputs: every sequence over AdlerBytes up to MaxAdlerLen, runs of 0xFF
\* long enough to carry a past MOD_ADLER, and the ASCII bytes of "Wikipedia"
MaxAdlerLen == 3
MaxAdlerRun == 258
AdlerBytes == {0, 1, 255}

SmallDims == (0..MaxWidth) \X (0..MaxHeight)

\* <<width, height>> whose raw scanline length height*(width*3+1) lies at the
\* block payload size 32763 and its multiples: 32762, 32763, 32764, 65526, 65527
BoundaryDims == {<<5460, 2>>, <<3640, 3>>, <<2730, 4>>, <<3640, 6>>, <<84, 259>>}

---------------------------------------------------------------------------
(* Bit and word arithmetic *)

RECURSIVE BitXor(_, _)
BitXor(a, b) ==
    IF a = 0 THEN b
    ELSE IF b = 0 THEN a
    ELSE (((a % 2) + (b % 2)) % 2) + 2 * BitXor(a \div 2, b \div 2)

\* bit k of the number n
Bit(n, k) == (n \div (2 ^ k)) % 2

RECURSIVE XorRow(_, _, _)
XorRow(a, lo, hi) ==
    IF hi - lo = 1 THEN <<BitXor(a, lo)>>
    ELSE XorRow(a, lo, (lo + hi) \div 2) \o XorRow(a, (lo + hi) \div 2, hi)
RECURSIVE XorRows(_, _)
XorRows(lo, hi) ==
    IF hi - lo = 1 THEN <<XorRow(lo, 0, 256)>>
    ELSE XorRows(lo, (lo + hi) \div 2) \o XorRows((lo + hi) \div 2, hi)
XorByte == XorRows(0, 256)
Xor8(a, b) == XorByte[a + 1][b + 1]
Xor16(a, b) == Xor8(a \div 256, b \div 256) * 256 + Xor8(a % 256, b % 256)
Xor32(u, v) == <<Xor16(u[1], v[1]), Xor16(u[2], v[2])>>

\* u >> k on a 32-bit word, 0 < k < 16
Shr32(u, k) == IF k = 8 THEN <<u[1] \div 256, (u[2] \div 256) + (u[1] % 256) * 256>> ELSE <<u[1] \div 2, (u[2] \div 2) + (u[1] % 2) * 32768>>

\* the 32-bit word of a number 0 <= n < 2^31
Word32(n) == <<n \div 65536, n % 65536>>

\* Not16 with the complement forgotten
Not16_forgotten(v) == v

\* ~v on a uint16_t, stored back into a uint16_t
Not16(v) == 65535 - v

\* memory images (least significant byte first)
Mem16(v) == <<v % 256, v \div 256>>
Mem32(u) == <<u[2] % 256, u[2] \div 256, u[1] % 256, u[1] \div 256>>

\* the 16-bit and 32-bit numbers read back from bytes
Le16(b0, b1) == b0 + 256 * b1
Be32(b0, b1, b2, b3) == <<b0 * 256 + b1, b2 * 256 + b3>>

---------------------------------------------------------------------------
(* CRC generator *)

CrcPoly == <<60856, 33568>>      \* 0xedb88320

RECURSIVE crc_entry(_, _)
crc_entry(c, k) ==
    IF k >= 8 THEN c
    ELSE crc_entry(IF c[2] % 2 = 1 THEN Xor32(CrcPoly, Shr32(c, 1)) ELSE Shr32(c, 1), k + 1)

\* the loop of make_crc_table over n in lo..hi-1: the entries it writes, in order
RECURSIVE crc_entries(_, _)
crc_entries(lo, hi) ==
    IF lo >= hi THEN <<>>
    ELSE IF hi - lo = 1
         THEN <<crc_entry(<<0, lo>>, 0)>>
         ELSE crc_entries(lo, (lo + hi) \div 2) \o crc_entries((lo + hi) \div 2, hi)

\* the table make_crc_table leaves in crc_table; crc_table[n] is element n + 1
make_crc_table == crc_entries(0, 256)

\* the table update_crc reads: built on first use
CrcTableUsed(table, computed) == IF computed = 0 THEN make_crc_table ELSE table

RECURSIVE crc_loop(_, _, _, _, _)
crc_loop(table, c, buf, lo, hi) ==
    IF lo >= hi THEN c
    ELSE IF hi - lo = 1
         THEN Xor32(table[Xor8(c[2] % 256, buf[lo + 1]) + 1], Shr32(c, 8))
         ELSE LET mid == (lo + hi) \div 2
                  left == crc_loop(table, c, buf, lo, mid)
              IN  IF left[1] >= 0 THEN crc_loop(table, left, buf, mid, hi) ELSE left

update_crc(table, computed, crc, buf, len) ==
    crc_loop(CrcTableUsed(table, computed), crc, buf, 0, len)

get_crc(table, computed, buf, len) ==
    Xor32(update_crc(table, computed, <<65535, 65535>>, buf, len), <<65535, 65535>>)

---------------------------------------------------------------------------
(* ADLER-32 generator *)

MOD_ADLER == 65521

\* adler_step with b updated before a
adler_step_b_first(ab, byte) ==
    <<(ab[1] + byte) % MOD_ADLER, (ab[2] + ab[1]) % MOD_ADLER>>

\* one pass of the loop on <<a, b>>: a = (a + data[index]) % MOD_ADLER, then
\* b = (b + a) % MOD_ADLER
adler_step(ab, byte) ==
    LET a == (ab[1] + byte) % MOD_ADLER
    IN  <<a, (ab[2] + a) % MOD_ADLER>>

RECURSIVE adler_loop(_, _, _, _)
adler_loop(ab, data, lo, hi) ==
    IF lo >= hi THEN ab
    ELSE IF hi - lo = 1
         THEN adler_step(ab, data[lo + 1])
         ELSE LET mid == (lo + hi) \div 2
                  left == adler_loop(ab, data, lo, mid)
              IN  IF left[1] >= 0 THEN adler_loop(left, data, mid, hi) ELSE left

\* (b << 16) | a as the word <<b, a>>
adler32(data, len) ==
    LET ab == adler_loop(<<1, 0>>, data, 0, len)
    IN  <<ab[2], ab[1]>>

---------------------------------------------------------------------------
(* push_to_buffer and sum_to_31 *)

\* push_to_buffer with the reverse flag ignored
push_to_buffer_forward(buffer, mem, length, reverse) ==
    buffer \o [i \in 1..length |-> mem[i]]

\* mem is the memory image of the object at val_ptr
push_to_buffer(buffer, mem, length, reverse) ==
    buffer \o [i \in 1..length |-> IF reverse THEN mem[length - (i - 1)] ELSE mem[i]]

\* sum_to_31 returning the remainder itself, not what is missing to 31
sum_to_31_remainder(number) == number % 31

sum_to_31(number) ==
    LET ret == 31 - (number % 31)
    IN  IF ret = 31 THEN 0 ELSE ret

---------------------------------------------------------------------------
(* class Image *)

\* Image::Image: new uint8_t[w * h * 3], every byte indeterminate (all u here)
NewImage(w, h, u) == <<>> \o [i \in 1..(w * h * 3) |-> u]

\* the index operator() computes
ImageIndex(w, column, row, colour) == row * w * 3 + column * 3 + colour

filter_type == 0

\* scan_row with the three colours pushed in the order 2, 1, 0
scan_row_bgr(img, w, y) ==
    <<filter_type>> \o
        [k \in 1..(3 * w) |-> img[ImageIndex(w, (k - 1) \div 3, y, 2 - ((k - 1) % 3)) + 1]]

\* one pass of the y loop: the filter byte, then the x loop's three pushes per pixel
scan_row(img, w, y) ==
    <<filter_type>> \o
        [k \in 1..(3 * w) |-> img[ImageIndex(w, (k - 1) \div 3, y, (k - 1) % 3) + 1]]

\* the y loop over rows lo..hi-1
RECURSIVE scan_rows(_, _, _, _)
scan_rows(img, w, lo, hi) ==
    IF lo >= hi THEN <<>>
    ELSE IF hi - lo = 1
         THEN scan_row(img, w, lo)
         ELSE LET mid == (lo + hi) \div 2
                  left == scan_rows(img, w, lo, mid)
              IN  IF Len(left) >= 0 THEN left \o scan_rows(img, w, mid, hi) ELSE left

block_size_limit == 32768

\* uncompressed_buffer[pos]; past the end the read is undefined: junk says what it does
read_at(ub, pos, junk) == IF pos < Len(ub) THEN ub[pos + 1] ELSE junk.byte

\* one stored block: the header byte, push_length, ~push_length, then the copy loop.
\* st.blocks records, per block, where its header byte went and how many payload
\* bytes the copy loop pushed; st.oob records a read at image_pos >= size.
push_block(st, ub, header, length, junk) ==
    LET push_length  == length % 65536
        b1           == Append(st.buffer, header)
        b2           == push_to_buffer(b1, Mem16(push_length), 2, FALSE)
        b3           == push_to_buffer(b2, Mem16(Not16(push_length)), 2, FALSE)
        payload      == IF st.image_pos + length <= Len(ub)
                        THEN SubSeq(ub, st.image_pos + 1, st.image_pos + length)
                        ELSE [j \in 1..length |->
                                 read_at(ub, st.image_pos + (j - 1), junk)]
    IN  [buffer    |-> b3 \o payload,
         image_pos |-> st.image_pos + length,
         blocks    |-> Append(st.blocks, [at |-> Len(st.buffer), pushed |-> length]),
         oob       |-> st.oob \/ (length > 0 /\ st.image_pos + length > Len(ub))]

\* "pushes all blocks but final block": the loop for i < no_of_blocks - 1
RECURSIVE push_blocks(_, _, _, _, _)
push_blocks(st, ub, i, no_of_blocks, junk) ==
    IF i >= no_of_blocks - 1 THEN st
    ELSE LET next == push_block(st, ub, 0, block_size_limit - 5, junk)
         IN  IF next.image_pos >= 0
             THEN push_blocks(next, ub, i + 1, no_of_blocks, junk)
             ELSE next

\* raw_length, the number of blocks and the length of the final block
raw_length_of(w, h) == h * (w * 3 + 1)
\* no_of_blocks rounded as quotient + 1, one too many at an exact multiple
no_of_blocks_of_plus_one(raw_length) == raw_length \div (block_size_limit - 5) + 1

no_of_blocks_of(raw_length) ==
    (raw_length + block_size_limit - 5 - 1) \div (block_size_limit - 5)
final_block_raw_length_of(raw_length) ==
    LET rem == raw_length % (block_size_limit - 5)
    IN  IF rem = 0 THEN block_size_limit - 5 ELSE rem

\* Image::deflate_no_compression(buffer): the buffer it leaves and its locals
deflate_no_compression(buffer, img, w, h, junk) ==
    LET uncompressed_buffer    == scan_rows(img, w, 0, h)
        adler                  == adler32(uncompressed_buffer, Len(uncompressed_buffer))
        raw_length             == raw_length_of(w, h)
        no_of_blocks           == no_of_blocks_of(raw_length)
        final_block_raw_length == final_block_raw_length_of(raw_length)
        st0 == [buffer |-> buffer, image_pos |-> 0, blocks |-> <<>>, oob |-> FALSE]
        st1 == push_blocks(st0, uncompressed_buffer, 0, no_of_blocks, junk)
        st2 == push_block(st1, uncompressed_buffer, 128, final_block_raw_length, junk)
    IN  [buffer                 |-> push_to_buffer(st2.buffer, Mem32(adler), 4, TRUE),
         entry                  |-> Len(buffer),
         uncompressed_buffer    |-> uncompressed_buffer,
         raw_length             |-> raw_length,
         no_of_blocks           |-> no_of_blocks,
         final_block_raw_length |-> final_block_raw_length,
         image_pos              |-> st2.image_pos,
         blocks                 |-> st2.blocks,
         oob                    |-> st2.oob]

\* the zlib header bytes of output_png
CMF == 120
FLG_base == 192
adjust_FLG(cmf, flg) == (flg + sum_to_31(cmf * 256 + flg)) % 256

\* idat_dat as output_png hands it to deflate_no_compression
idat_prefix == <<73, 68, 65, 84>> \o <<CMF, adjust_FLG(CMF, FLG_base)>>

PngSignature == <<137, 80, 78, 71, 13, 10, 26, 10>>
IendChunk == <<0, 0, 0, 0, 73, 69, 78, 68, 174, 66, 96, 130>>

\* ihdr_dat: chunk type, width, height, then depth 8, colour type 2, 0, 0, 0
ihdr_dat_of(w, h) ==
    LET d1 == push_to_buffer(<<73, 72, 68, 82>>, Mem32(Word32(w)), 4, TRUE)
        d2 == push_to_buffer(d1, Mem32(Word32(h)), 4, TRUE)
    IN  d2 \o <<8, 2, 0, 0, 0>>

\* idat_size counting the four bytes of the chunk type as well
idat_size_with_type(idat_dat) == Word32(Len(idat_dat))

\* the uint32_t size output_png pushes before idat_dat
idat_size(idat_dat) == Word32(Len(idat_dat) - 4)

\* Image::output_png with the file open: main_buffer as it is written, and the locals
output_png(mb, table, computed, img, w, h, junk) ==
    LET mb1      == mb \o PngSignature
        mb2      == mb1 \o <<0, 0, 0, 13>>
        ihdr_dat == ihdr_dat_of(w, h)
        mb3      == push_to_buffer(mb2, ihdr_dat, Len(ihdr_dat), FALSE)
        crc1     == get_crc(table, computed, ihdr_dat, Len(ihdr_dat))
        mb4      == push_to_buffer(mb3, Mem32(crc1), 4, TRUE)
        d        == deflate_no_compression(idat_prefix, img, w, h, junk)
        idat_dat == d.buffer
        mb5      == push_to_buffer(mb4, Mem32(idat_size(idat_dat)), 4, TRUE)
        mb6      == push_to_buffer(mb5, idat_dat, Len(idat_dat), FALSE)
        table1   == CrcTableUsed(table, computed)
        crc2     == get_crc(table1, 1, idat_dat, Len(idat_dat))
        mb7      == push_to_buffer(mb6, Mem32(crc2), 4, TRUE)
    IN  [main_buffer |-> mb7 \o IendChunk,
         crc_table   |-> table1,
         start       |-> Len(mb),
         ihdr_dat    |-> ihdr_dat,
         d           |-> d]

\* the bytes the copy loops of deflate_no_compression read, against the bytes there
\* are: the out-of-range read is undefined only when it happens
reads_past_end(w, h) ==
    LET raw_length == raw_length_of(w, h)
        full       == no_of_blocks_of(raw_length) - 1
    IN  (IF full > 0 THEN full ELSE 0) * (block_size_limit - 5)
            + final_block_raw_length_of(raw_length) > h * (3 * w + 1)

JunkChoices(w, h) ==
    IF reads_past_end(w, h) THEN JunkReads ELSE {[fault |-> FALSE, byte |-> 0]}


\* main.cpp's fill: test_img(x, y, 0) = 0; (x, y, 1) = 255 - x - y; (x, y, 2) = 0
test_pixel(x, y, c) == IF c = 1 THEN (255 - x - y) % 256 ELSE 0

\* the storage after the fill loops: every cell of the w*h*3 holds its pixel's value
test_image(w, h) ==
    <<>> \o [k \in 1..(w * h * 3) |->
                test_pixel(((k - 1) \div 3) % w, (k - 1) \div (3 * w), (k - 1) % 3)]

---------------------------------------------------------------------------
(* The program: an Image, the pixel stores and the calls made on it *)

\* Bitstream(buffer_ref) on an empty vector: byte = 0, bit_no = 7. pushed is the
\* bits the calls were asked to push, in order.
InitStream == stream = [byte |-> 0, bit_no |-> 7, buffer |-> <<>>, pushed |-> <<>>]

InitStatics ==
    /\ crc_table = [n \in 1..256 |-> <<0, 0>>]
    /\ crc_table_computed = 0

InitImage(dims) ==
    /\ \E d \in dims, u \in UninitBytes :
          /\ width = d[1]
          /\ height = d[2]
          /\ image = NewImage(d[1], d[2], u)
    /\ closed = FALSE
    /\ main_buffer = <<>>
    /\ file = [exists |-> FALSE, bytes |-> <<>>]
    /\ run = [op |-> "none"]
    /\ calls = 0
    /\ stores = 0
    /\ stored = [fill |-> FALSE, cells |-> [c \in {} |-> 0]]
    /\ pc = "live"

\* CMF and FLG as output_png declares them, before the FCHECK adjustment
InitHeader(bases) ==
    \E b \in bases : zhdr = [CMF |-> CMF, base |-> b, FLG |-> b, adjusted |-> FALSE]

Init == InitStatics /\ InitStream /\ InitImage(SmallDims) /\ InitHeader({FLG_base})

\* test_img(column, row, colour) = v, within the image
SetPixel(column, row, colour, v) ==
    /\ pc = "live" /\ ~closed
    /\ stores < MaxStores
    /\ image' = [image EXCEPT ![ImageIndex(width, column, row, colour) + 1] = v]
    /\ stored' = [stored EXCEPT !.cells =
                      [c \in DOMAIN stored.cells \cup {<<column, row, colour>>} |->
                          IF c = <<column, row, colour>> THEN v ELSE stored.cells[c]]]
    /\ stores' = stores + 1
    /\ run' = [op |-> "none"]
    /\ UNCHANGED <<stream, width, height, closed, main_buffer, crc_table, crc_table_computed,
                   file, calls, pc, zhdr>>

\* the fill loops of main(), run once
FillTestImage ==
    /\ pc = "live" /\ ~closed
    /\ ~stored.fill
    /\ image' = test_image(width, height)
    /\ stored' = [fill |-> TRUE, cells |-> [c \in {} |-> 0]]
    /\ run' = [op |-> "none"]
    /\ UNCHANGED <<stream, width, height, closed, main_buffer, crc_table, crc_table_computed,
                   file, calls, stores, pc, zhdr>>

\* test_img.output_png(filename): the file opens or not
OutputPng(open_ok, junk) ==
    /\ pc = "live" /\ ~closed
    /\ calls < MaxCalls
    /\ calls' = calls + 1
    /\ IF ~open_ok
       THEN /\ run' = [op |-> "output_png", open |-> FALSE]
            /\ UNCHANGED <<stream, main_buffer, crc_table, crc_table_computed, file, pc, zhdr>>
       ELSE /\ run' = IF junk.fault
                      THEN [op |-> "output_png", open |-> TRUE, fault |-> TRUE]
                      ELSE
                      LET r == output_png(main_buffer, crc_table, crc_table_computed,
                                          image, width, height, junk)
                      IN  [op |-> "output_png", open |-> TRUE, fault |-> FALSE,
                           start |-> r.start, ihdr_dat |-> r.ihdr_dat, d |-> r.d,
                           main_buffer |-> r.main_buffer, crc_table |-> r.crc_table]
            /\ IF run'.fault
               THEN /\ pc' = "crashed"
                    /\ file' = [exists |-> TRUE, bytes |-> <<>>]
                    /\ UNCHANGED <<stream, main_buffer, crc_table, crc_table_computed, zhdr>>
               ELSE /\ main_buffer' = run'.main_buffer
                    /\ file' = [exists |-> TRUE, bytes |-> run'.main_buffer]
                    /\ crc_table' = run'.crc_table
                    /\ crc_table_computed' = 1
                    /\ zhdr' = [CMF |-> CMF, base |-> FLG_base,
                                FLG |-> adjust_FLG(CMF, FLG_base), adjusted |-> TRUE]
                    /\ pc' = pc
    /\ UNCHANGED <<stream, width, height, image, closed, stores, stored>>

\* test_img.close()
Close ==
    /\ pc = "live" /\ ~closed
    /\ closed' = TRUE
    /\ run' = [op |-> "none"]
    /\ UNCHANGED <<stream, width, height, image, main_buffer, crc_table, crc_table_computed,
                   file, calls, stores, stored, pc, zhdr>>

Next ==
    \/ \E cell \in StoreCells(width, height), v \in StoreBytes :
          SetPixel(cell[1], cell[2], cell[3], v)
    \/ \E open_ok \in BOOLEAN, junk \in JunkChoices(width, height) :
          OutputPng(open_ok, junk)
    \/ Close

Spec == Init /\ [][Next]_vars

---------------------------------------------------------------------------
(* deflate_no_compression on its own: images up to the block boundaries *)

\* the buffers deflate_no_compression is handed: an empty one, and output_png's
DeflateBuffers == {<<>>, idat_prefix}

InitDeflate ==
    InitStatics /\ InitStream /\ InitImage(SmallDims \cup BoundaryDims) /\ InitHeader({FLG_base})

\* test_img.deflate_no_compression(buffer). The call leaves the image as it found
\* it, so a second call on the same image repeats the first: one call per image.
Deflate(buffer, junk) ==
    /\ pc = "live" /\ ~closed
    /\ run.op = "none"
    /\ run' = IF junk.fault
              THEN [op |-> "deflate", fault |-> TRUE]
              ELSE [op |-> "deflate", fault |-> FALSE,
                    d |-> deflate_no_compression(buffer, image, width, height, junk)]
    /\ pc' = IF junk.fault THEN "crashed" ELSE pc
    /\ UNCHANGED <<stream, width, height, image, closed, main_buffer, crc_table,
                   crc_table_computed, file, calls, stores, stored, zhdr>>

NextDeflate ==
    \/ FillTestImage
    \/ \E buffer \in DeflateBuffers, junk \in JunkChoices(width, height) :
          Deflate(buffer, junk)

SpecDeflate == InitDeflate /\ [][NextDeflate]_vars

---------------------------------------------------------------------------
(* The FCHECK adjustment on its own: every FLG the byte can hold *)

InitFlg == InitStatics /\ InitStream /\ InitImage({<<0, 0>>}) /\ InitHeader(0..255)

\* FLG += sum_to_31(CMF * 256 + FLG) on the uint8_t FLG
AdjustFlg ==
    /\ ~zhdr.adjusted
    /\ zhdr' = [zhdr EXCEPT !.FLG = adjust_FLG(zhdr.CMF, zhdr.base), !.adjusted = TRUE]
    /\ UNCHANGED <<stream, width, height, image, closed, main_buffer, crc_table,
                   crc_table_computed, file, run, calls, stores, stored, pc>>

NextFlg == AdjustFlg

SpecFlg == InitFlg /\ [][NextFlg]_vars

---------------------------------------------------------------------------
(* adler32 on its own, one pass of its loop at a time *)

RECURSIVE SeqsUpTo(_, _)
SeqsUpTo(S, n) ==
    IF n = 0 THEN {<<>>}
    ELSE LET shorter == SeqsUpTo(S, n - 1)
         IN  shorter \cup {Append(s, x) : s \in {t \in shorter : Len(t) = n - 1}, x \in S}

AdlerInputs ==
    SeqsUpTo(AdlerBytes, MaxAdlerLen)
        \cup {<<>> \o [i \in 1..n |-> 255] : n \in {MaxAdlerRun - 1, MaxAdlerRun}}
        \cup {<<>> \o [i \in 1..MaxAdlerRun |-> IF i = 1 THEN 1 ELSE 255]}
        \cup {<<87, 105, 107, 105, 112, 101, 100, 105, 97>>}

InitAdler == InitStatics /\ InitStream /\ InitImage({<<0, 0>>}) /\ InitHeader({FLG_base})

\* adler32(data, len) entered: a = 1, b = 0
AdlerCall(data) ==
    /\ run.op = "none"
    /\ run' = [op |-> "adler32", data |-> data, index |-> 0, ab |-> <<1, 0>>,
               returned |-> FALSE, ret |-> <<0, 0>>]
    /\ UNCHANGED <<stream, width, height, image, closed, main_buffer, crc_table,
                   crc_table_computed, file, calls, stores, stored, pc, zhdr>>

\* one pass of the for loop
AdlerStep ==
    /\ run.op = "adler32" /\ ~run.returned
    /\ run.index < Len(run.data)
    /\ run' = [run EXCEPT !.ab = adler_step(run.ab, run.data[run.index + 1]),
                          !.index = run.index + 1]
    /\ UNCHANGED <<stream, width, height, image, closed, main_buffer, crc_table,
                   crc_table_computed, file, calls, stores, stored, pc, zhdr>>

\* return (b << 16) | a
AdlerReturn ==
    /\ run.op = "adler32" /\ ~run.returned
    /\ run.index >= Len(run.data)
    /\ run' = [run EXCEPT !.returned = TRUE, !.ret = <<run.ab[2], run.ab[1]>>]
    /\ UNCHANGED <<stream, width, height, image, closed, main_buffer, crc_table,
                   crc_table_computed, file, calls, stores, stored, pc, zhdr>>

NextAdler ==
    \/ \E data \in AdlerInputs : AdlerCall(data)
    \/ AdlerStep
    \/ AdlerReturn

SpecAdler == InitAdler /\ [][NextAdler]_vars

---------------------------------------------------------------------------
(* Construction: main() with its assert, and a caller that constructs directly *)

\* the limit main() asserts on width and height
MaxDimension == 65535

\* the dimensions asked for, around the limit; one of the two is 0 or both are
\* at most 1, so that the storage stays small
RequestedDims ==
    {d \in {0, 1, MaxDimension, MaxDimension + 1} \X {0, 1, MaxDimension, MaxDimension + 1} :
        d[1] = 0 \/ d[2] = 0 \/ (d[1] <= 1 /\ d[2] <= 1)}

\* before gpng::Image(width, height): width and height are the arguments; pc is
\* "main" in main() ahead of its assert, "caller" in any other caller of the
\* constructor
InitMain ==
    /\ InitStatics
    /\ InitStream
    /\ InitHeader({FLG_base})
    /\ \E d \in RequestedDims : width = d[1] /\ height = d[2]
    /\ image = <<>>
    /\ closed = FALSE
    /\ main_buffer = <<>>
    /\ file = [exists |-> FALSE, bytes |-> <<>>]
    /\ run = [op |-> "none"]
    /\ calls = 0
    /\ stores = 0
    /\ stored = [fill |-> FALSE, cells |-> [c \in {} |-> 0]]
    /\ pc \in {"main", "caller"}

\* assert(width <= 65535 && height <= 65535 && "...")
MainAssert ==
    /\ pc = "main"
    /\ pc' = IF width <= MaxDimension /\ height <= MaxDimension THEN "asserted" ELSE "aborted"
    /\ UNCHANGED <<stream, width, height, image, closed, main_buffer, crc_table,
                   crc_table_computed, file, run, calls, stores, stored, zhdr>>

\* gpng::Image(width, height): the allocation and the two assignments
Construct ==
    /\ pc \in {"asserted", "caller"}
    /\ \E u \in UninitBytes : image' = NewImage(width, height, u)
    /\ pc' = "live"
    /\ UNCHANGED <<stream, width, height, closed, main_buffer, crc_table,
                   crc_table_computed, file, run, calls, stores, stored, zhdr>>

NextMain ==
    \/ MainAssert
    \/ Construct
    \/ Next

SpecMain == InitMain /\ [][NextMain]_vars

---------------------------------------------------------------------------
(* operator() with any arguments: the reference it returns, and a store through it *)

\* the arguments tried: one below and one past each range
AccessArgs(w, h) == ((0 - 1)..w) \X ((0 - 1)..h) \X ((0 - 1)..3)

\* what a store through a reference outside the storage does: undefined
OutsideStores == {"fault", "outside"}

\* test_img(column, row, colour) = v with no condition on the arguments:
\* image[row * width * 3 + column * 3 + colour] is whatever cell the sum names
AccessPixel(column, row, colour, v, outside) ==
    /\ pc = "live" /\ ~closed
    /\ stores < MaxStores
    /\ stores' = stores + 1
    /\ LET index     == ImageIndex(width, column, row, colour)
           in_bounds == /\ 0 <= column /\ column < width
                        /\ 0 <= row /\ row < height
                        /\ 0 <= colour /\ colour < 3
       IN  IF 0 <= index /\ index < width * height * 3
           THEN /\ image' = [image EXCEPT ![index + 1] = v]
                /\ run' = [op |-> "store", in_bounds |-> in_bounds,
                           asked |-> <<column, row, colour>>,
                           landed |-> "storage",
                           cell |-> <<(index \div 3) % width, index \div (3 * width),
                                      index % 3>>]
                /\ pc' = pc
           ELSE /\ image' = image
                /\ run' = [op |-> "store", in_bounds |-> in_bounds,
                           asked |-> <<column, row, colour>>,
                           landed |-> outside, cell |-> <<>>]
                /\ pc' = IF outside = "fault" THEN "crashed" ELSE pc
    /\ UNCHANGED <<stream, width, height, closed, main_buffer, crc_table, crc_table_computed,
                   file, calls, stored, zhdr>>

NextAccess ==
    \E a \in AccessArgs(width, height), v \in StoreBytes, outside \in OutsideStores :
        AccessPixel(a[1], a[2], a[3], v, outside)

SpecAccess == Init /\ [][NextAccess]_vars

---------------------------------------------------------------------------
(* get_crc call after call, make_crc_table one table entry at a time *)

\* the buffers handed to get_crc: empty, one zero byte, "IEND", "123456789"
CrcBuffers ==
    {<<>>, <<0>>, <<73, 69, 78, 68>>, <<49, 50, 51, 52, 53, 54, 55, 56, 57>>}

\* the test of update_crc with the table built on every call
table_needed_always(computed) == TRUE

\* if (!crc_table_computed)
table_needed(computed) == computed = 0

InitCrc == InitStatics /\ InitStream /\ InitImage({<<0, 0>>}) /\ InitHeader({FLG_base})

\* get_crc(buf, len) entered, up to the test of crc_table_computed in update_crc.
\* run.makes counts the calls of make_crc_table, run.first keeps the value the
\* first call on each buffer returned.
GetCrcCall(buf) ==
    /\ run.op = "none" \/ (run.op = "get_crc" /\ run.phase = "returned")
    /\ calls < MaxCalls
    /\ calls' = calls + 1
    /\ LET makes == IF run.op = "none" THEN 0 ELSE run.makes
           first == IF run.op = "none" THEN [b \in {} |-> <<0, 0>>] ELSE run.first
       IN  run' = IF table_needed(crc_table_computed)
                  THEN [op |-> "get_crc", phase |-> "make", n |-> 0, buf |-> buf,
                        ret |-> <<0, 0>>, makes |-> makes + 1, first |-> first]
                  ELSE [op |-> "get_crc", phase |-> "fold", n |-> 0, buf |-> buf,
                        ret |-> <<0, 0>>, makes |-> makes, first |-> first]
    /\ UNCHANGED <<stream, width, height, image, closed, main_buffer, crc_table,
                   crc_table_computed, file, stores, stored, pc, zhdr>>

\* make_crc_table: one pass of the n loop, crc_table[n] = c
MakeEntry ==
    /\ run.op = "get_crc" /\ run.phase = "make"
    /\ run.n < 256
    /\ crc_table' = [crc_table EXCEPT ![run.n + 1] = crc_entry(Word32(run.n), 0)]
    /\ run' = [run EXCEPT !.n = run.n + 1]
    /\ UNCHANGED <<stream, width, height, image, closed, main_buffer, crc_table_computed,
                   file, calls, stores, stored, pc, zhdr>>

\* make_crc_table: crc_table_computed = 1 after the loop
MakeDone ==
    /\ run.op = "get_crc" /\ run.phase = "make"
    /\ run.n >= 256
    /\ crc_table_computed' = 1
    /\ run' = [run EXCEPT !.phase = "fold"]
    /\ UNCHANGED <<stream, width, height, image, closed, main_buffer, crc_table,
                   file, calls, stores, stored, pc, zhdr>>

\* the loop of update_crc over buf and the return of get_crc
CrcFold ==
    /\ run.op = "get_crc" /\ run.phase = "fold"
    /\ LET ret == Xor32(crc_loop(crc_table, <<65535, 65535>>, run.buf, 0, Len(run.buf)),
                        <<65535, 65535>>)
       IN  run' = [run EXCEPT !.phase = "returned", !.ret = ret,
                              !.first = IF run.buf \in DOMAIN run.first THEN run.first
                                        ELSE [b \in DOMAIN run.first \cup {run.buf} |->
                                                 IF b = run.buf THEN ret ELSE run.first[b]]]
    /\ UNCHANGED <<stream, width, height, image, closed, main_buffer, crc_table,
                   crc_table_computed, file, calls, stores, stored, pc, zhdr>>

NextCrc ==
    \/ \E buf \in CrcBuffers : GetCrcCall(buf)
    \/ MakeEntry
    \/ MakeDone
    \/ CrcFold

SpecCrc == InitCrc /\ [][NextCrc]_vars

---------------------------------------------------------------------------
(* The sizes the code computes in int and uint32_t, for dimensions up to 65535 *)

\* Numbers past 2^31 are written <<hi, lo>> for hi * 65536 + lo, lo below 65536
BigNorm(hi, lo) == <<hi + (lo \div 65536), lo % 65536>>
BigAdd(x, y) == BigNorm(x[1] + y[1], x[2] + y[2])
\* a * b for a below 2^23 and b below 2^16
BigMul(a, b) ==
    LET p0 == a * (b % 256)
        p1 == a * (b \div 256)
    IN  BigNorm(p1 \div 256, (p1 % 256) * 256 + p0)
BigTimes3(x) == BigNorm(3 * x[1], 3 * x[2])

\* what a signed overflow does: undefined; the builds wrap modulo 2^32 or trap
OverflowOutcomes == {"wrap", "trap"}

\* the int an expression of exact value x evaluates to
IntOf(x, overflow) ==
    IF x[1] < 32768 THEN [trap |-> FALSE, overflowed |-> FALSE, value |-> x]
    ELSE IF overflow = "trap" THEN [trap |-> TRUE, overflowed |-> TRUE, value |-> <<0, 0>>]
    ELSE [trap |-> FALSE, overflowed |-> TRUE, value |-> <<x[1] % 65536, x[2]>>]

\* the uint32_t a size_t of exact value x converts to
Uint32Of(x) == <<x[1] % 65536, x[2]>>

\* w * h * 3 of new uint8_t[w * h * 3]
image_size_int(w, h, overflow) == IntOf(BigTimes3(BigMul(w, h)), overflow)

\* int raw_length = height * (width * 3 + 1)
raw_length_int(w, h, overflow) == IntOf(BigMul(w * 3 + 1, h), overflow)

\* idat_dat.size() of a call whose raw_length is r: type, CMF, FLG, the blocks with
\* five bytes of header each, the trailer
idat_dat_size(r) ==
    LET blocks  == IF r = 0 THEN 1 ELSE (r \div 32763) + (IF r % 32763 = 0 THEN 0 ELSE 1)
        payload == IF r = 0 THEN 32763 ELSE r
    IN  BigAdd(Word32(payload), Word32(4 + 2 + 5 * blocks + 4))

\* uint32_t idat_size = idat_dat.size() - 4, size at least 4
idat_size_uint32(size) ==
    Uint32Of(IF size[2] >= 4 THEN <<size[1], size[2] - 4>>
             ELSE <<size[1] - 1, size[2] + 65536 - 4>>)

\* widths and heights within the input contract, around the products 2^31 and 2^32
SizeValues == {0, 1, 21845, 21846, 32768, 43691, 46340, 46341, 65535}

InitSizes ==
    /\ InitStatics
    /\ InitStream
    /\ InitHeader({FLG_base})
    /\ width \in SizeValues /\ height \in SizeValues
    /\ image = <<>>
    /\ closed = FALSE
    /\ main_buffer = <<>>
    /\ file = [exists |-> FALSE, bytes |-> <<>>]
    /\ run = [op |-> "none"]
    /\ calls = 0
    /\ stores = 0
    /\ stored = [fill |-> FALSE, cells |-> [c \in {} |-> 0]]
    /\ pc = "caller"

\* Image::Image: the size handed to new[]
ImageSize(overflow) ==
    /\ pc = "caller"
    /\ run' = [op |-> "sizes", step |-> "image",
               image_size |-> image_size_int(width, height, overflow)]
    /\ pc' = IF run'.image_size.trap THEN "crashed" ELSE "sized"
    /\ UNCHANGED <<stream, width, height, image, closed, main_buffer, crc_table,
                   crc_table_computed, file, calls, stores, stored, zhdr>>

\* deflate_no_compression: raw_length
RawLength32(overflow) ==
    /\ pc = "sized" /\ run.step = "image"
    /\ run' = [op |-> "sizes", step |-> "raw", image_size |-> run.image_size,
               raw_length |-> raw_length_int(width, height, overflow)]
    /\ pc' = IF run'.raw_length.trap THEN "crashed" ELSE pc
    /\ UNCHANGED <<stream, width, height, image, closed, main_buffer, crc_table,
                   crc_table_computed, file, calls, stores, stored, zhdr>>

\* output_png: idat_size, for a raw_length and a storage size that did not overflow
IdatSize ==
    /\ pc = "sized" /\ run.step = "raw"
    /\ ~run.raw_length.overflowed /\ ~run.image_size.overflowed
    /\ LET r    == run.raw_length.value[1] * 65536 + run.raw_length.value[2]
           size == idat_dat_size(r)
       IN  run' = [op |-> "sizes", step |-> "idat", image_size |-> run.image_size,
                   raw_length |-> run.raw_length,
                   idat_dat_size |-> size, idat_size |-> idat_size_uint32(size)]
    /\ UNCHANGED <<stream, width, height, image, closed, main_buffer, crc_table,
                   crc_table_computed, file, calls, stores, stored, pc, zhdr>>

NextSizes ==
    \/ \E overflow \in OverflowOutcomes : ImageSize(overflow)
    \/ \E overflow \in OverflowOutcomes : RawLength32(overflow)
    \/ IdatSize

SpecSizes == InitSizes /\ [][NextSizes]_vars

---------------------------------------------------------------------------
(* class Bitstream: push and push_number *)

\* the number of bits pushed into one stream
MaxPushed == 10

\* byte | (1 << k)
OrBit(byte, k) == IF Bit(byte, k) = 1 THEN byte ELSE byte + 2 ^ k

\* Bitstream::push(bit) on the fields st
push(st, bit) ==
    LET byte == IF bit THEN OrBit(st.byte, st.bit_no) ELSE st.byte
    IN  IF st.bit_no - 1 = 0 - 1
        THEN [byte |-> 0, bit_no |-> 7, buffer |-> Append(st.buffer, byte)]
        ELSE [byte |-> byte, bit_no |-> st.bit_no - 1, buffer |-> st.buffer]

\* the first loop of push_number, i down to 0: byte here is the member
\* Bitstream::byte, the local byte being declared only after the loop
RECURSIVE push_msbyte(_, _)
push_msbyte(st, i) ==
    IF i < 0 THEN st ELSE push_msbyte(push(st, Bit(st.byte, i) = 1), i - 1)

\* the j loop of push_number over the local byte, j down to 0
RECURSIVE push_byte(_, _, _)
push_byte(st, byte, j) ==
    IF j < 0 THEN st ELSE push_byte(push(st, Bit(byte, j) = 1), byte, j - 1)

\* the second loop of push_number over the bytes below the most significant one
RECURSIVE push_lower_bytes(_, _, _)
push_lower_bytes(st, mem, i) ==
    IF i < 0 THEN st ELSE push_lower_bytes(push_byte(st, mem[i + 1], 7), mem, i - 1)

\* Bitstream::push_number(number_ptr, no_of_bits), mem the bytes at number_ptr
push_number(st, mem, no_of_bits) ==
    LET no_of_bytes   == (no_of_bits + 8 - 1) \div 8
        first_bit_pos == IF no_of_bits % 8 = 0 THEN 8 ELSE no_of_bits % 8
        st1           == [st EXCEPT !.byte = mem[no_of_bytes]]
    IN  push_lower_bytes(push_msbyte(st1, first_bit_pos - 1), mem, no_of_bytes - 2)

\* the uint16_t numbers pushed and the bit counts asked for
PushValues == {0, 5, 426}
PushCounts == {1, 3, 8, 9}

\* the n low-order bits of value, most significant first
LowBits(value, n) == [k \in 1..n |-> Bit(value, n - k)]

\* stream.push(bit)
Push(bit) ==
    /\ Len(stream.pushed) < MaxPushed
    /\ LET st == push([byte |-> stream.byte, bit_no |-> stream.bit_no,
                       buffer |-> stream.buffer], bit)
       IN  stream' = [byte |-> st.byte, bit_no |-> st.bit_no, buffer |-> st.buffer,
                      pushed |-> Append(stream.pushed, IF bit THEN 1 ELSE 0)]
    /\ UNCHANGED <<width, height, image, closed, main_buffer, crc_table,
                   crc_table_computed, file, run, calls, stores, stored, pc, zhdr>>

\* uint16_t number = value; stream.push_number(&number, no_of_bits)
PushNumber(value, no_of_bits) ==
    /\ Len(stream.pushed) + no_of_bits <= MaxPushed
    /\ LET st == push_number([byte |-> stream.byte, bit_no |-> stream.bit_no,
                              buffer |-> stream.buffer], Mem16(value), no_of_bits)
       IN  stream' = [byte |-> st.byte, bit_no |-> st.bit_no, buffer |-> st.buffer,
                      pushed |-> stream.pushed \o LowBits(value, no_of_bits)]
    /\ UNCHANGED <<width, height, image, closed, main_buffer, crc_table,
                   crc_table_computed, file, run, calls, stores, stored, pc, zhdr>>

InitBits == InitStatics /\ InitStream /\ InitImage({<<0, 0>>}) /\ InitHeader({FLG_base})

NextBits ==
    \/ \E bit \in BOOLEAN : Push(bit)
    \/ \E value \in PushValues, no_of_bits \in PushCounts : PushNumber(value, no_of_bits)

SpecBits == InitBits /\ [][NextBits]_vars

---------------------------------------------------------------------------
(* What the claims read *)

\* the raw scanline length R of the image
RawLength == height * (width * 3 + 1)

\* a deflate_no_compression call has just returned (directly or within output_png)
DeflateDone ==
    \/ run.op = "deflate" /\ ~run.fault
    \/ run.op = "output_png" /\ run.open /\ ~run.fault

CeilDiv(a, b) == (a + b - 1) \div b
Max(a, b) == IF a >= b THEN a ELSE b

\* block i of the call: its header byte, LEN and NLEN fields as they stand in the buffer
HeaderByte(d, i) == d.buffer[d.blocks[i].at + 1]
LenField(d, i) == Le16(d.buffer[d.blocks[i].at + 2], d.buffer[d.blocks[i].at + 3])
NlenField(d, i) == Le16(d.buffer[d.blocks[i].at + 4], d.buffer[d.blocks[i].at + 5])

\* where block i's payload ends in the buffer: at the next block's header, or at
\* the four trailer bytes
PayloadEnd(d, i) ==
    IF i < Len(d.blocks) THEN d.blocks[i + 1].at ELSE Len(d.buffer) - 4

\* the bytes between block i's NLEN and the end of its payload
PayloadBytes(d, i) == SubSeq(d.buffer, d.blocks[i].at + 6, PayloadEnd(d, i))

RECURSIVE PayloadsFrom(_, _)
PayloadsFrom(d, i) ==
    IF i > Len(d.blocks) THEN <<>> ELSE PayloadBytes(d, i) \o PayloadsFrom(d, i + 1)

\* the blocks lie one after another from the entry of the buffer to the trailer
BlocksContiguous(d) ==
    /\ Len(d.blocks) >= 1
    /\ d.blocks[1].at = d.entry
    /\ \A i \in 1..Len(d.blocks) :
          PayloadEnd(d, i) = d.blocks[i].at + 5 + d.blocks[i].pushed

\* the block count and payload sizes of a splitter with payload capacity cap
SplitBy(d, cap, last) ==
    /\ BlocksContiguous(d)
    /\ Len(d.blocks) = CeilDiv(Max(RawLength, 1), cap)
    /\ \A i \in 1..(Len(d.blocks) - 1) : Len(PayloadBytes(d, i)) = cap
    /\ Len(PayloadBytes(d, Len(d.blocks))) = last

(* C1 as stated: ceil(max(R,1)/65535) blocks, all but the last of 65535 payload
   bytes, the last of R mod 65535 bytes, or 65535 when R is a positive multiple *)
C1_Blocks65535 ==
    DeflateDone =>
        SplitBy(run.d, 65535,
                IF RawLength > 0 /\ RawLength % 65535 = 0 THEN 65535
                ELSE RawLength % 65535)

(* C1 amended: ceil(max(R,1)/32763) blocks, all but the last of 32763 payload
   bytes, the last of R mod 32763 bytes, or 32763 when R mod 32763 = 0, R = 0
   included *)
C1_Blocks32763 ==
    DeflateDone =>
        SplitBy(run.d, 32763,
                IF RawLength % 32763 = 0 THEN 32763 ELSE RawLength % 32763)

\* R = 65526, an exact multiple: two blocks of 32763
C1_Witness ==
    /\ DeflateDone
    /\ RawLength = 65526
    /\ Len(run.d.blocks) = 2
    /\ Len(PayloadBytes(run.d, 2)) = 32763

(* C2: the header byte of the last block has bit 0 set and bits 1-2 clear; the
   header byte of every earlier block has bits 0-2 clear *)
C2_LastBlockFinal ==
    DeflateDone =>
        \A i \in 1..Len(run.d.blocks) :
            /\ Bit(HeaderByte(run.d, i), 0) = (IF i = Len(run.d.blocks) THEN 1 ELSE 0)
            /\ Bit(HeaderByte(run.d, i), 1) = 0
            /\ Bit(HeaderByte(run.d, i), 2) = 0

(* C3: the payloads of the blocks, in order, are the R scanline bytes; no read of
   uncompressed_buffer is at or past its length; image_pos ends at R *)
C3_PayloadsAreScanlines ==
    /\ pc # "crashed"
    /\ DeflateDone =>
          /\ PayloadsFrom(run.d, 1) = run.d.uncompressed_buffer
          /\ Len(run.d.uncompressed_buffer) = RawLength
          /\ ~run.d.oob
          /\ run.d.image_pos = RawLength

(* C4: in every block LEN is the number of payload bytes that follow, at most
   65535, and NLEN is the 16-bit complement of LEN *)
C4_LenNlen ==
    DeflateDone =>
        /\ BlocksContiguous(run.d)
        /\ \A i \in 1..Len(run.d.blocks) :
              /\ LenField(run.d, i) = Len(PayloadBytes(run.d, i))
              /\ LenField(run.d, i) <= 65535
              /\ \A k \in 0..15 :
                    Bit(NlenField(run.d, i), k) = 1 - Bit(LenField(run.d, i), k)

\* two blocks, the second shorter than the first
C4_Witness ==
    /\ DeflateDone
    /\ Len(run.d.blocks) = 2
    /\ LenField(run.d, 1) = 32763
    /\ LenField(run.d, 2) = 1
    /\ NlenField(run.d, 2) = 65534

(* C5: with R = 0 the call emits one block, final, with LEN 0 and NLEN 0xFFFF and
   no payload, and reads no element of the empty scanline buffer *)
C5_EmptyImage ==
    RawLength = 0 =>
        /\ pc # "crashed"
        /\ DeflateDone =>
              /\ Len(run.d.blocks) = 1
              /\ Bit(HeaderByte(run.d, 1), 0) = 1
              /\ LenField(run.d, 1) = 0
              /\ NlenField(run.d, 1) = 65535
              /\ Len(PayloadBytes(run.d, 1)) = 0
              /\ ~run.d.oob

(* C6 as stated: for every FLG base in 0..255 the adjusted header is a multiple of
   31, and for base 0xC0 bits 5-7 are unchanged *)
C6_AllBases ==
    zhdr.adjusted =>
        /\ (zhdr.CMF * 256 + zhdr.FLG) % 31 = 0
        /\ zhdr.base = 192 => \A k \in 5..7 : Bit(zhdr.FLG, k) = Bit(zhdr.base, k)

(* C6 amended: for every FLG base in 0..249 the adjusted header is a multiple of
   31, and for base 0xC0 bits 5-7 are unchanged *)
C6_BasesTo249 ==
    (zhdr.adjusted /\ zhdr.base <= 249) =>
        /\ (zhdr.CMF * 256 + zhdr.FLG) % 31 = 0
        /\ zhdr.base = 192 => \A k \in 5..7 : Bit(zhdr.FLG, k) = Bit(zhdr.base, k)

\* base 0xC0 adjusted to 0xDA
C6_Witness == zhdr.adjusted /\ zhdr.base = 192 /\ zhdr.FLG = 218 /\ zhdr.CMF = 120

\* an output_png call has just written the file
OutputDone == run.op = "output_png" /\ run.open /\ ~run.fault

\* the bytes this call appended to main_buffer, as they stand in the file
Written == SubSeq(file.bytes, run.start + 1, Len(file.bytes))

\* the big-endian 32-bit field of b at index at
Field32(b, at) == Be32(b[at], b[at + 1], b[at + 2], b[at + 3])

\* the chunk of b that starts at index at, cut by its own length field
ChunkAt(b, at) ==
    LET n == Field32(b, at)[2]
    IN  [hi      |-> Field32(b, at)[1],
         length  |-> n,
         type    |-> SubSeq(b, at + 4, at + 7),
         payload |-> SubSeq(b, at + 8, at + 7 + n),
         crc     |-> Field32(b, at + 8 + n),
         next    |-> at + 12 + n]

\* the chunk's CRC field is get_crc over its type tag followed by its payload
ChunkCrcOk(c) ==
    c.crc = get_crc(crc_table, crc_table_computed, c.type \o c.payload, 4 + c.length)

(* C7: in the bytes a call writes, each chunk's length field is its payload byte
   count (13 for IHDR, the whole zlib stream for IDAT, 0 for IEND) and its CRC
   field is get_crc over type tag and payload; the IEND CRC AE 42 60 82 is
   get_crc of "IEND" *)
C7_ChunkFields ==
    OutputDone =>
        LET b    == Written
            ihdr == ChunkAt(b, 9)
            idat == ChunkAt(b, ihdr.next)
            iend == ChunkAt(b, idat.next)
        IN  /\ SubSeq(b, 1, 8) = PngSignature
            /\ ihdr.hi = 0 /\ ihdr.length = 13
            /\ ihdr.type = <<73, 72, 68, 82>>
            /\ ihdr.payload = SubSeq(run.ihdr_dat, 5, 17)
            /\ ChunkCrcOk(ihdr)
            /\ idat.hi = 0 /\ idat.length = Len(run.d.buffer) - 4
            /\ idat.type = <<73, 68, 65, 84>>
            /\ idat.payload = SubSeq(run.d.buffer, 5, Len(run.d.buffer))
            /\ ChunkCrcOk(idat)
            /\ iend.hi = 0 /\ iend.length = 0
            /\ iend.type = <<73, 69, 78, 68>>
            /\ iend.crc = <<44610, 24706>>
            /\ ChunkCrcOk(iend)
            /\ iend.next = Len(b) + 1

\* a 2x2 image: 14 scanline bytes, an IDAT payload of 2 + 5 + 14 + 4 bytes
C7_Witness ==
    /\ OutputDone
    /\ width = 2 /\ height = 2
    /\ Field32(Written, 9) = <<0, 13>>
    /\ Field32(Written, 34) = <<0, 25>>
    /\ Len(Written) = 8 + 25 + 37 + 12

(* C8: every call works on buffers of its own: the file a call writes holds one
   signature and the three chunks of that call, nothing of an earlier call *)
C8_NothingCarriedOver ==
    OutputDone => run.start = 0 /\ file.bytes = Written

\* the scanline bytes of the image, written out cell by cell
ExpectedScanlines ==
    <<>> \o [k \in 1..RawLength |->
                LET y   == (k - 1) \div (3 * width + 1)
                    off == (k - 1) % (3 * width + 1)
                IN  IF off = 0 THEN 0 ELSE image[y * 3 * width + off]]

(* C9: the IDAT payload is the zlib header 78 DA, then the stored blocks one
   after another carrying the scanline bytes in order, then the Adler-32 of the
   scanline bytes, most significant byte first *)
C9_IdatPayload ==
    (DeflateDone /\ run.d.entry = 6) =>
        LET d == run.d
            n == Len(d.buffer)
        IN  /\ SubSeq(d.buffer, 1, 6) = <<73, 68, 65, 84, 120, 218>>
            /\ BlocksContiguous(d)
            /\ RawLength > 0 => PayloadsFrom(d, 1) = ExpectedScanlines
            /\ Field32(d.buffer, n - 3) = adler32(ExpectedScanlines, RawLength)

\* three blocks of the filled 84x259 image
C9_Witness ==
    /\ DeflateDone /\ run.d.entry = 6
    /\ stored.fill
    /\ RawLength = 65527
    /\ Len(run.d.blocks) = 3
    /\ Len(run.d.buffer) = 6 + 3 * 5 + 65527 + 4

(* C10: the scanline buffer has height * (3 * width + 1) bytes; byte
   y * (3 * width + 1) is 0; byte y * (3 * width + 1) + 1 + 3 * x + c is the value
   last stored through operator()(x, y, c) *)
C10_ScanlineLayout ==
    DeflateDone =>
        LET ub == run.d.uncompressed_buffer
            at(x, y, c) == y * (3 * width + 1) + 1 + 3 * x + c
        IN  /\ Len(ub) = height * (3 * width + 1)
            /\ \A y \in 0..(height - 1) : ub[y * (3 * width + 1) + 1] = 0
            /\ \A cell \in DOMAIN stored.cells :
                  ub[at(cell[1], cell[2], cell[3]) + 1] = stored.cells[cell]
            /\ stored.fill =>
                  \A x \in 0..(width - 1), y \in 0..(height - 1), c \in 0..2 :
                      ub[at(x, y, c) + 1] = test_pixel(x, y, c)

\* a 2x2 image with two cells stored, the last one in the last byte
C10_Witness ==
    /\ OutputDone
    /\ width = 2 /\ height = 2
    /\ DOMAIN stored.cells = {<<0, 0, 0>>, <<1, 1, 2>>}
    /\ stored.cells[<<0, 0, 0>>] = 17
    /\ run.d.uncompressed_buffer[2] = 17
    /\ run.d.uncompressed_buffer[14] = 255

\* 1 + the sum of the bytes, and n + the sum of (n - i + 1) * data[i]: what the
\* recurrence comes to, before the reduction mod 65521
RECURSIVE SumRange(_, _, _, _)
SumRange(data, n, lo, hi) ==
    IF lo > hi THEN 0
    ELSE IF lo = hi THEN (IF n = 0 THEN 1 ELSE n - lo + 1) * data[lo]
    ELSE LET mid == (lo + hi) \div 2
         IN  SumRange(data, n, lo, mid) + SumRange(data, n, mid + 1, hi)
SumBytes(data, n) == SumRange(data, 0, 1, n)
SumWeighted(data, n) == SumRange(data, n, 1, n)

\* data with its first two bytes exchanged
SwapFirstTwo(data) ==
    [i \in 1..Len(data) |-> IF i = 1 THEN data[2] ELSE IF i = 2 THEN data[1] ELSE data[i]]

(* C11: adler32 returns (b << 16) | a of the recurrence a = (a + byte) mod 65521,
   b = (b + a) mod 65521 from a = 1, b = 0; a and b are below 65521 after every
   byte; the empty buffer gives 0x00000001; exchanging two different bytes
   changes the result *)
C11_Adler32 ==
    run.op = "adler32" =>
        /\ run.ab[1] < 65521 /\ run.ab[2] < 65521
        /\ run.ab[1] = (1 + SumBytes(run.data, run.index)) % 65521
        /\ run.ab[2] = (run.index + SumWeighted(SubSeq(run.data, 1, run.index), run.index))
                           % 65521
        /\ run.returned =>
              /\ run.index = Len(run.data)
              /\ run.ret = <<run.ab[2], run.ab[1]>>
              /\ run.ret = adler32(run.data, Len(run.data))
              /\ Len(run.data) = 0 => run.ret = <<0, 1>>
              /\ run.data = <<87, 105, 107, 105, 112, 101, 100, 105, 97>>
                    => run.ret = <<4582, 920>>
              /\ (Len(run.data) >= 2 /\ run.data[1] # run.data[2])
                    => run.ret # adler32(SwapFirstTwo(run.data), Len(run.data))

\* a run of 0xFF bytes long enough that a has been reduced mod 65521
C11_Witness ==
    /\ run.op = "adler32" /\ run.returned
    /\ Len(run.data) = 258
    /\ run.data[1] = 255
    /\ run.ab[1] = 1 + 258 * 255 - 65521

(* C12: with width or height above 65535 the constructor's allocation is not
   reached, output_png is not reached, and no PNG bytes are written *)
C12_OversizeRejected ==
    (width > 65535 \/ height > 65535) =>
        /\ pc \in {"main", "caller", "aborted"}
        /\ run.op # "output_png"
        /\ ~file.exists

(* C13: operator() with column, row or colour out of range fails fast: the store
   lands neither on a cell of the storage nor outside the storage *)
C13_OutOfBoundsFailsFast ==
    (run.op = "store" /\ ~run.in_bounds) =>
        /\ run.landed # "storage"
        /\ run.landed # "outside"

\* what holds of the table and the flag in every state of a sequence of get_crc calls
CrcTableOnce ==
    run.op = "get_crc" =>
        /\ run.makes = 1
        /\ run.phase = "make" => (calls = 1 /\ crc_table_computed = 0)
        /\ crc_table_computed \in {0, 1}
        /\ crc_table_computed = 1 =>
              \A n \in 0..255 : crc_table[n + 1] = crc_entry(Word32(n), 0)
        /\ run.phase = "returned" =>
              /\ run.ret = run.first[run.buf]
              /\ run.buf = <<73, 69, 78, 68>> => run.ret = <<44610, 24706>>
              /\ run.buf = <<49, 50, 51, 52, 53, 54, 55, 56, 57>> => run.ret = <<52212, 14630>>

(* C14: make_crc_table runs once, during the first get_crc call; the flag is 1
   only with all 256 entries written; once the flag is 1 no step changes an
   entry or the flag; get_crc of a buffer returns what it returned the first
   time *)
C14_TableBuiltOnce ==
    /\ []CrcTableOnce
    /\ [][crc_table_computed = 1 =>
             (crc_table' = crc_table /\ crc_table_computed' = 1)]_vars

\* a second call on the buffer of the first, returned, with the table built once
C14_Witness ==
    /\ run.op = "get_crc" /\ run.phase = "returned"
    /\ calls = 2
    /\ run.makes = 1
    /\ run.buf = <<73, 69, 78, 68>>
    /\ run.ret = <<44610, 24706>>
    /\ DOMAIN run.first = {<<73, 69, 78, 68>>}

(* C15: for 0 <= width, height <= 65535 the storage size width * height * 3, the
   raw length height * (width * 3 + 1) and the IDAT length idat_dat.size() - 4,
   as the code computes them in 32 bits, are their exact values: nothing wraps,
   nothing is negative *)
C15_SizesExact ==
    (run.op = "sizes" /\ width <= 65535 /\ height <= 65535) =>
        /\ ~run.image_size.trap
        /\ run.image_size.value = BigTimes3(BigMul(width, height))
        /\ run.step \in {"raw", "idat"} =>
              /\ ~run.raw_length.trap
              /\ run.raw_length.value = BigMul(width * 3 + 1, height)
        /\ run.step = "idat" =>
              BigAdd(run.idat_size, <<0, 4>>) = run.idat_dat_size

\* the bits the stream holds: the flushed bytes most significant bit first, then
\* the bits of the partially filled byte above the cursor
StreamBits ==
    [k \in 1..(8 * Len(stream.buffer) + 7 - stream.bit_no) |->
        IF k <= 8 * Len(stream.buffer)
        THEN Bit(stream.buffer[((k - 1) \div 8) + 1], 7 - ((k - 1) % 8))
        ELSE Bit(stream.byte, 7 - ((k - 1) % 8))]

(* C16: the stream holds the bits pushed, in push order, most significant bit
   first: push_number appends the n low-order bits of its value after the bits
   already there and leaves those unchanged, in the flushed bytes and in the
   partially filled byte *)
C16_PushNumberForward == StreamBits = stream.pushed

====
